---------------------------- MODULE Spec2Model ----------------------------
(***************************************************************************)
(* html2pdf-serverless: the POST /generate-pdf pipeline.                   *)
(*                                                                         *)
(* One request is followed from the moment the route handler is entered    *)
(* until its response has been written and every render job it started has *)
(* settled.  The handler and the render jobs are asynchronous functions:   *)
(* every `await` is a position, and the step from one await to the next is *)
(* one action.  The rendering engine (puppeteer) and the PDF library are   *)
(* opaque: every call to them either resolves or rejects with one of a     *)
(* small set of errors; the number of rejections in one run is bounded.    *)
(*                                                                         *)
(* Releasing a page session or the browser is recorded as the call of      *)
(* close(): the code has no other means of release, so a session counts as *)
(* open from the moment newPage() resolved until close() was called on it. *)
(***************************************************************************)
EXTENDS Integers, Sequences, FiniteSets, TLC

\* ------------------------------------------------------------------ bounds
\* largest number of pages in a request body sent to a deployment-mode process
MaxPages == 4
\* largest number of pages in a request body sent to a local-mode process
MaxLocalPages == 2
\* largest number of engine/library calls that reject in one run
MaxFaults == 2
\* largest number of pages in a request body that names a font
MaxFontPages == 1

\* ------------------------------------------------------- program constants
VercelMaxPages == 10
LocalMaxPages == 30
VercelConcurrency == 3
LocalConcurrency == 5

Min(a, b) == IF a < b THEN a ELSE b

\* --------------------------------------------------------------- messages
\* A text is a sequence of fragments; `includes` looks for a fragment.
Includes(text, frag) == \E k \in DOMAIN text : text[k] = frag

MsgTimeout == <<"Rendering timed out. Try reducing content complexity or external resources.">>
MsgResource == <<"Failed to load external resources (fonts/images).">>
MsgRender == <<"Failed to render page to PDF.">>
MsgUnknown == <<"Failed to generate PDF.">>
MsgNoPuppeteer == <<"Puppeteer is not available in this environment.">>
MsgMaxPages(maxPages) == <<"Maximum ", maxPages, " pages allowed.">>
Undefined == <<>>

\* ----------------------------------------------------------------- values
\* Values that are returned, thrown or sent.  `tag` tells them apart:
\*   raw       an Error object of the engine or of a library
\*   zod       a ZodError
\*   envelope  an ErrorResponse { error: { type, message, details } }
\*   buffer    the bytes page.pdf() produced for one input page
NoValue == [tag |-> "none"]

RawError(name, message) == [tag |-> "raw", name |-> name, message |-> message]

\* the errors the engine and the libraries reject with
ETimeout == RawError("TimeoutError", <<"Navigation timeout of 60000 ms exceeded">>)
ETimeoutNet == RawError("TimeoutError", <<"Timed out after ", "net::", "ERR_TIMED_OUT">>)
ENet == RawError("Error", <<"net::", "ERR_CONNECTION_REFUSED">>)
EProtocol == RawError("Error", <<"Protocol error: Target closed">>)
RawErrors == {ETimeout, ETimeoutNet, ENet, EProtocol}
\* those of a call that loads no content (launch, newPage, close)
EngineErrors == {ETimeout, EProtocol}

EInvalidPdf == RawError("Error", <<"Failed to parse PDF document">>)

\* what res.setHeader throws for a header value it cannot carry
EInvalidChar == RawError("TypeError", <<"Invalid character in header content [\"Content-Disposition\"]">>)

createErrorResponse(type, message, details) ==
    [tag |-> "envelope", type |-> type, message |-> message, details |-> details]

Buffer(src, valid) == [tag |-> "buffer", src |-> src, valid |-> valid]

\* variant: the network test comes before the timeout test
ClassifyNetFirst(error) ==
    IF error.message # <<>> /\ Includes(error.message, "net::")
    THEN createErrorResponse("RESOURCE_ERROR", MsgResource, error.message)
    ELSE IF error.name = "TimeoutError"
    THEN createErrorResponse("TIMEOUT_ERROR", MsgTimeout, error.message)
    ELSE createErrorResponse("RENDER_ERROR", MsgRender, error.message)

\* variant: the envelope of a render failure carries the engine's text as message
ClassifyMessageRaw(error) ==
    IF error.name = "TimeoutError"
    THEN createErrorResponse("TIMEOUT_ERROR", MsgTimeout, error.message)
    ELSE IF error.message # <<>> /\ Includes(error.message, "net::")
    THEN createErrorResponse("RESOURCE_ERROR", MsgResource, error.message)
    ELSE createErrorResponse("RENDER_ERROR", error.message, error.message)

\* the catch block of generatePagePdf
ClassifyRenderError(error) ==
    IF error.name = "TimeoutError"
    THEN createErrorResponse("TIMEOUT_ERROR", MsgTimeout, error.message)
    ELSE IF error.message # <<>> /\ Includes(error.message, "net::")
    THEN createErrorResponse("RESOURCE_ERROR", MsgResource, error.message)
    ELSE createErrorResponse("RENDER_ERROR", MsgRender, error.message)

\* ------------------------------------------------------------- validation
\* A page of the body is a number: 0 is the empty string, k > 0 the
\* document carrying the marker PAGE-k.
ZodIssue(path, message) == <<path, ": ", message>>

\* An optional string that the body does not give is Absent; an optional
\* number that it does not give is 0 (the schema admits positive numbers only).
Absent == "undefined"
Truthy(s) == s # Absent /\ s # ""

\* body.options as far as the page size and the timeout go (no timeout
\* given), and the body without options
PdfOptions(format, width, height) ==
    [format |-> format, width |-> width, height |-> height, timeout |-> 0]
NoOptions == PdfOptions(Absent, 0, 0)

\* options o with timeout t, in ms
Timed(o, t) == [o EXCEPT !.timeout = t]

\* z.number().min(1000).max(60000).optional()
TimeoutMin == 1000
TimeoutMax == 60000

\* body.font; a body without font and a body with font {} take the same branches
FontOptions(family, url) ==
    [family |-> family, url |-> url, format |-> Absent, weight |-> 0, style |-> Absent]
NoFont == FontOptions(Absent, Absent)

FontUrl == "https://fonts.example/inter.woff2"
NotAUrl == "inter.woff2"
\* z.string().url()
IsUrl(u) == u \in {FontUrl}

\* variant: the refinement does not test the format
PdfOptionsIssuesNoFormat(o) ==
    IF (o.width # 0 /\ o.height = 0) \/ (o.width = 0 /\ o.height # 0)
    THEN <<ZodIssue("options", "Cannot specify both format and width/height, and width/height must be used together")>>
    ELSE <<>>

\* PdfOptionsSchema: the refinement on format, width and height
PdfOptionsIssues(o) ==
    IF Truthy(o.format) /\ (o.width # 0 \/ o.height # 0)
    THEN <<ZodIssue("options", "Cannot specify both format and width/height, and width/height must be used together")>>
    ELSE IF (o.width # 0 /\ o.height = 0) \/ (o.width = 0 /\ o.height # 0)
    THEN <<ZodIssue("options", "Cannot specify both format and width/height, and width/height must be used together")>>
    ELSE <<>>

\* variant: the refinement rejects a family without url only
FontOptionsIssuesOneWay(f) ==
    (IF f.url # Absent /\ ~IsUrl(f.url)
     THEN <<ZodIssue("font.url", "Invalid url")>>
     ELSE <<>>)
    \o
    (IF Truthy(f.family) /\ ~Truthy(f.url)
     THEN <<ZodIssue("font", "Font family and URL must be used together")>>
     ELSE <<>>)

\* FontOptionsSchema: url is a URL; the refinement on family and url, which
\* tests them for truthiness
FontOptionsIssues(f) ==
    (IF f.url # Absent /\ ~IsUrl(f.url)
     THEN <<ZodIssue("font.url", "Invalid url")>>
     ELSE <<>>)
    \o
    (IF (Truthy(f.family) /\ ~Truthy(f.url)) \/ (~Truthy(f.family) /\ Truthy(f.url))
     THEN <<ZodIssue("font", "Font family and URL must be used together")>>
     ELSE <<>>)

\* PdfOptionsSchema: the bounds of timeout
TimeoutIssues(o) ==
    IF o.timeout # 0 /\ o.timeout < TimeoutMin
    THEN <<ZodIssue("options.timeout", "Number must be greater than or equal to 1000")>>
    ELSE IF o.timeout > TimeoutMax
    THEN <<ZodIssue("options.timeout", "Number must be less than or equal to 60000")>>
    ELSE <<>>

\* variant: the pages array has no minimum length
SchemaIssuesNoMin(b) ==
    (IF \E k \in DOMAIN b.pages : b.pages[k] = 0
     THEN <<ZodIssue("pages.0", "String must contain at least 1 character(s)")>>
     ELSE <<>>)
    \o TimeoutIssues(b.options)
    \o PdfOptionsIssues(b.options)
    \o FontOptionsIssues(b.font)

\* PdfRequestSchema.parse: the issues of a body (empty when it is valid)
SchemaIssues(b) ==
    (IF Len(b.pages) < 1
     THEN <<ZodIssue("pages", "Pages array must contain at least one HTML string")>>
     ELSE <<>>)
    \o
    (IF \E k \in DOMAIN b.pages : b.pages[k] = 0
     THEN <<ZodIssue("pages.0", "String must contain at least 1 character(s)")>>
     ELSE <<>>)
    \o TimeoutIssues(b.options)
    \o PdfOptionsIssues(b.options)
    \o FontOptionsIssues(b.font)

ZodError(issues) == [tag |-> "zod", errors |-> issues]

\* ---------------------------------------------------------- page options
DEFAULT_PDF_OPTIONS == Timed(PdfOptions("A4", 0, 0), 60000)

\* variant: { ...options, ...defaults }, the defaults replace what the request gives
SpreadDefaultsLast(defaults, options) ==
    Timed(PdfOptions(IF defaults.format # Absent THEN defaults.format ELSE options.format,
                     IF defaults.width # 0 THEN defaults.width ELSE options.width,
                     IF defaults.height # 0 THEN defaults.height ELSE options.height),
          IF defaults.timeout # 0 THEN defaults.timeout ELSE options.timeout)

\* { ...defaults, ...options }: a key the request gives replaces the default
Spread(defaults, options) ==
    Timed(PdfOptions(IF options.format # Absent THEN options.format ELSE defaults.format,
                     IF options.width # 0 THEN options.width ELSE defaults.width,
                     IF options.height # 0 THEN options.height ELSE defaults.height),
          IF options.timeout # 0 THEN options.timeout ELSE defaults.timeout)

\* the ceiling of the content-load timeout, in ms
RenderTimeoutCap == 60000

\* Math.min(pdfOptions.timeout || 60000, 60000)
renderTimeoutOf(pdfOptions) ==
    Min(IF pdfOptions.timeout # 0 THEN pdfOptions.timeout ELSE 60000, RenderTimeoutCap)

\* ------------------------------------------------------------------ fonts
\* fontCSS is a string: NoCss is '', any other value an @font-face rule
FontCss(family, format, weight, style, data) ==
    [family |-> family, format |-> format, weight |-> weight, style |-> style, data |-> data]
NoCss == FontCss("", "", 0, "", 0)

\* what downloadAndEncodeFont returned: nothing yet, null, or a base64 text
\* of some length
Unset == [kind |-> "unset", length |-> 0]
Null == [kind |-> "null", length |-> 0]
String(length) == [kind |-> "string", length |-> length]

\* the size ceiling of the font payload, in bytes
FontSizeLimit == 1024 * 1024 * 2
\* the ceiling the comment above the test names: 1MB
DocumentedFontSizeLimit == 1024 * 1024

\* Buffer.from(fontBuffer).toString('base64'), by its length
Base64(byteLength) == 4 * ((byteLength + 2) \div 3)

generateFontCSS(fontOptions, base64Data) ==
    FontCss(fontOptions.family,
            IF Truthy(fontOptions.format) THEN fontOptions.format ELSE "woff2",
            IF fontOptions.weight # 0 THEN fontOptions.weight ELSE 400,
            IF Truthy(fontOptions.style) THEN fontOptions.style ELSE "normal",
            base64Data)

\* An HTML string is a sequence of tokens: a tag is the sequence of the
\* pieces of its text, "<" and its name first; the text token of page k is
\* the marker PAGE-k.
Tag(pieces) == [t |-> pieces, page |-> 0, css |-> NoCss]
Text(k) == [t |-> <<"#text">>, page |-> k, css |-> NoCss]
Style(css) == [t |-> <<"<", "style", ">">>, page |-> 0, css |-> css]

HtmlTag == Tag(<<"<", "html", ">">>)
HeadTag == Tag(<<"<", "head", ">">>)
HeadEnd == Tag(<<"<", "/head", ">">>)
\* <header>: the text of the tag goes on after "<head"
HeaderTag == Tag(<<"<", "head", "er", ">">>)

\* the string a page of the body stands for: with a head, with an html tag
\* only, a bare fragment, or with an html tag and a header but no head
Html(k) ==
    IF k = 0 THEN <<>>
    ELSE IF k % 4 = 1 THEN <<HtmlTag, HeadTag, HeadEnd, Text(k)>>
    ELSE IF k % 4 = 2 THEN <<HtmlTag, Text(k)>>
    ELSE IF k % 4 = 3 THEN <<Text(k)>>
    ELSE <<HtmlTag, HeaderTag, Text(k)>>

LowerCase(piece) ==
    IF piece = "HEAD" THEN "head" ELSE IF piece = "HTML" THEN "html" ELSE piece

\* html.match(/<name[^>]*>/i): the index of the first tag whose text begins
\* with "<" and the name, whatever follows the name; 0 when there is none
Match(html, name) ==
    LET hits == {k \in DOMAIN html :
                    /\ Len(html[k].t) >= 2
                    /\ html[k].t[1] = "<"
                    /\ LowerCase(html[k].t[2]) = name}
    IN IF hits = {} THEN 0 ELSE CHOOSE k \in hits : \A h \in hits : k <= h

InsertAfter(html, k, tokens) == SubSeq(html, 1, k) \o tokens \o SubSeq(html, k + 1, Len(html))

injectFontCSS(html, css) ==
    IF Match(html, "head") # 0
    THEN InsertAfter(html, Match(html, "head"), <<Style(css)>>)
    ELSE IF Match(html, "html") # 0
    THEN InsertAfter(html, Match(html, "html"), <<HeadTag, Style(css), HeadEnd>>)
    ELSE <<Style(css)>> \o html

\* what the engine prints of a document: the marker of its text
RECURSIVE Printed(_)
Printed(html) ==
    IF html = <<>> THEN 0
    ELSE IF Head(html).page # 0 THEN Head(html).page
    ELSE Printed(Tail(html))

\* variant: the two profiles are swapped
maxPagesOfSwapped(vercel) == IF vercel THEN LocalMaxPages ELSE VercelMaxPages

maxPagesOf(vercel) == IF vercel THEN VercelMaxPages ELSE LocalMaxPages

\* variant: the limits of the two profiles are exchanged
maxConcurrencyOfSwapped(vercel, n) ==
    Min(n, IF vercel THEN LocalConcurrency ELSE VercelConcurrency)

maxConcurrencyOf(vercel, n) ==
    Min(n, IF vercel THEN VercelConcurrency ELSE LocalConcurrency)

\* ---------------------------------------------------------- error handler
Response(status, kind, payload) == [status |-> status, kind |-> kind, body |-> payload]
NoResponse == [status |-> 0, kind |-> "none", body |-> NoValue]

RECURSIVE JoinIssues(_)
JoinIssues(issues) ==
    IF issues = <<>> THEN <<>>
    ELSE IF Len(issues) = 1 THEN issues[1]
    ELSE issues[1] \o <<", ">> \o JoinIssues(Tail(issues))

\* variant: an envelope thrown by a render job is not passed through
errorHandlerNoPassThrough(error) ==
    IF error.tag = "zod"
    THEN Response(400, "json",
                  createErrorResponse("VALIDATION_ERROR", JoinIssues(error.errors), error.errors))
    ELSE Response(500, "json",
                  createErrorResponse("UNKNOWN_ERROR", MsgUnknown, error.message))

\* variant: a schema failure is answered with status 500
errorHandlerZod500(error) ==
    IF error.tag = "zod"
    THEN Response(500, "json",
                  createErrorResponse("VALIDATION_ERROR", JoinIssues(error.errors), error.errors))
    ELSE IF error.tag = "envelope" /\ error.type # ""
    THEN Response(500, "json", error)
    ELSE Response(500, "json",
                  createErrorResponse("UNKNOWN_ERROR", MsgUnknown, error.message))

\* app.use(errorHandler): Zod failure, then a thrown envelope, then the rest
errorHandler(error) ==
    IF error.tag = "zod"
    THEN Response(400, "json",
                  createErrorResponse("VALIDATION_ERROR", JoinIssues(error.errors), error.errors))
    ELSE IF error.tag = "envelope" /\ error.type # ""
    THEN Response(500, "json", error)
    ELSE Response(500, "json",
                  createErrorResponse("UNKNOWN_ERROR", MsgUnknown, error.message))


\* ------------------------------------------------------------------ state
VARIABLES
    isVercel,      \* deployment-mode flag, read once at startup
    puppeteer,     \* TRUE when require('puppeteer...') succeeded at startup
    body,          \* req.body
    pc,            \* the await the route handler is suspended at
    browser,       \* [launched, closeCalls]: the `browser` local and the calls of browser.close()
    launchCalls,   \* calls of puppeteer.launch
    newPageCalls,  \* calls of browser.newPage
    i,             \* offset of the current window in pages
    jobs,          \* the generatePagePdf calls of the current window
    all,           \* the Promise.all of the current window
    pdfBuffers,    \* page buffers collected so far
    mi,            \* index of the merge loop
    mergedPdf,     \* pages added to the target document
    error,         \* the error held by the handler's catch block
    response,      \* what was written to res
    faults,        \* rejections injected so far
    fontCSS,       \* the `fontCSS` local of the handler
    fetchCalls,    \* calls of fetch
    base64Font,    \* the `base64Font` local: what downloadAndEncodeFont returned
    owner,         \* the browsers puppeteer.launch has created: owner[b] is the request that launched b
    rid,           \* the request whose handler the variables above belong to
    parked,        \* the variables of a second request while its handler is suspended
    intercepted,   \* a request a page makes, and what the session's handler did with it
    pauses,        \* history: the pauses the handler has taken between windows
    reordered      \* history: some job settled while a job of lower index was still running

vars == <<isVercel, puppeteer, body, pc, browser, launchCalls, newPageCalls, i, jobs,
          all, pdfBuffers, mi, mergedPdf, error, response, faults, fontCSS, fetchCalls,
          base64Font, owner, rid, parked, intercepted, pauses, reordered>>

env == <<isVercel, puppeteer, body, rid, parked, intercepted>>
fontVars == <<fontCSS, fetchCalls, base64Font>>

pages == body.pages
N == Len(pages)
maxPages == maxPagesOf(isVercel)
maxConcurrency == maxConcurrencyOf(isVercel, N)

Body(pp, options, font) == [pages |-> pp, options |-> options, font |-> font]
Marked(n) == [k \in 1..n |-> k]

\* the font descriptors and the options a client may send
Fonts == {FontOptions(family, url) : family \in {Absent, "", "Inter"},
                                     url \in {Absent, FontUrl, NotAUrl}}
OptionSets == {PdfOptions(format, width, height) : format \in {Absent, "Letter"},
                                                   width \in {0, 800},
                                                   height \in {0, 600}}
\* the timeouts a client may ask for, around the bounds of the schema
Timeouts == {TimeoutMin - 1, TimeoutMin, 30000, TimeoutMax, TimeoutMax + 1}

\* the bodies a client may send: n marked pages, one empty page, or one page
\* more than the deployment profile admits; a few pages with a font
\* descriptor, and one page of each other shape with a font; one page with
\* options; one page with a timeout
Bodies ==
    {Body(Marked(n), NoOptions, NoFont) : n \in (0..MaxPages) \cup {VercelMaxPages + 1}}
        \cup {Body(<<0>>, NoOptions, NoFont)}
        \cup {Body(Marked(n), NoOptions, f) : n \in 1..MaxFontPages, f \in Fonts}
        \cup {Body(<<k>>, NoOptions, FontOptions("Inter", FontUrl)) : k \in 2..4}
        \cup {Body(Marked(1), o, NoFont) : o \in OptionSets}
        \cup {Body(Marked(1), Timed(NoOptions, t), NoFont) : t \in Timeouts}

\* `let browser`: undefined; id is the browser it refers to once assigned,
\* closed the browsers this request has called close() on
NoBrowser == [launched |-> FALSE, closeCalls |-> 0, id |-> 0, closed |-> {}]

NoAll == [state |-> "none", values |-> <<>>, reason |-> NoValue]

\* nothing of the request has run yet
Quiet ==
    /\ pc = "start"
    /\ browser = NoBrowser
    /\ launchCalls = 0
    /\ newPageCalls = 0
    /\ i = 0
    /\ jobs = <<>>
    /\ all = NoAll
    /\ pdfBuffers = <<>>
    /\ mi = 0
    /\ mergedPdf = <<>>
    /\ error = NoValue
    /\ response = NoResponse
    /\ fontCSS = NoCss
    /\ fetchCalls = 0
    /\ base64Font = Unset
    /\ owner = <<>>
    /\ pauses = 0
    /\ reordered = FALSE

\* nothing of the request has run yet and no call has rejected
Idle ==
    /\ Quiet
    /\ faults = 0

\* the variables of request r, which sent body b, before its handler runs
Fresh(r, b) ==
    [rid |-> r, body |-> b, pc |-> "start", browser |-> NoBrowser, launchCalls |-> 0,
     newPageCalls |-> 0, i |-> 0, jobs |-> <<>>, all |-> NoAll, pdfBuffers |-> <<>>,
     mi |-> 0, mergedPdf |-> <<>>, error |-> NoValue, response |-> NoResponse,
     fontCSS |-> NoCss, fetchCalls |-> 0, base64Font |-> Unset, pauses |-> 0,
     reordered |-> FALSE]

\* there is no second request
NoContext == Fresh(0, Body(<<>>, NoOptions, NoFont))

\* no page has made a request
NoRequest == [source |-> "", resourceType |-> "", url |-> <<>>, decision |-> ""]

\* one request is served, and the page sessions are not looked into
Alone ==
    /\ rid = 1
    /\ parked = NoContext
    /\ intercepted = NoRequest

Init ==
    /\ isVercel \in BOOLEAN
    /\ puppeteer \in BOOLEAN
    /\ body \in Bodies
    /\ isVercel \/ Len(body.pages) <= MaxLocalPages
    /\ Idle
    /\ Alone

CanFail == faults < MaxFaults

\* ------------------------------------------------------------ render jobs
\* generatePagePdf up to its first await: browser.newPage() has been called
NewJob(b, html) ==
    [pc |-> "newPage", browser |-> b, html |-> html, pdfOptions |-> NoOptions,
     renderTimeout |-> 0, opened |-> FALSE, closeCalls |-> 0, raw |-> NoValue, out |-> NoValue]

\* variant: `browser` is a module-level variable, which every launch overwrites
BrowserRefShared(local, latest) == latest

\* what the handler's `browser` evaluates to: its own local, not the browser
\* launched last
BrowserRef(local, latest) == local

\* the html a job is given: the page, with the font rule when there is one
processedHtml(html) == IF fontCSS # NoCss THEN injectFontCSS(html, fontCSS) ELSE html

\* variant: the slice has no upper end
SliceToEnd(seq, offset, size) == SubSeq(seq, offset + 1, Len(seq))

\* pages.slice(offset, offset + size), offset counted from 0
Slice(seq, offset, size) == SubSeq(seq, offset + 1, Min(offset + size, Len(seq)))

\* the style fragment given to the first job of a window only
StartWindowFirstOnly(offset, b) ==
    LET chunk == Slice(pages, offset, maxConcurrency) IN
    /\ jobs' = [j \in 1..Len(chunk) |->
                    NewJob(b, IF j = 1 THEN processedHtml(Html(chunk[j])) ELSE Html(chunk[j]))]
    /\ all' = [state |-> "pending",
               values |-> [j \in 1..Len(chunk) |-> NoValue],
               reason |-> NoValue]
    /\ newPageCalls' = newPageCalls + Len(chunk)
    /\ i' = offset

\* chunk.map(...): every job of the window runs to its first await
StartWindow(offset, b) ==
    LET chunk == Slice(pages, offset, maxConcurrency) IN
    /\ jobs' = [j \in 1..Len(chunk) |-> NewJob(b, processedHtml(Html(chunk[j])))]
    /\ all' = [state |-> "pending",
               values |-> [j \in 1..Len(chunk) |-> NoValue],
               reason |-> NoValue]
    /\ newPageCalls' = newPageCalls + Len(chunk)
    /\ i' = offset

\* the awaits of the try block, in order; page.close() of finally follows.
\* "configure" stands for the four awaits that set the session up
\* (setViewport, setRequestInterception, setJavaScriptEnabled, setCacheEnabled).
TryStep == [newPage |-> "configure",
            configure |-> "setContent",
            setContent |-> "settle",
            settle |-> "pdf"]

Running(job) == job.pc \notin {"returned", "thrown"}

\* variant: fulfilled values are stored in the order of arrival
AllCollectArrival(values, j, v) ==
    LET free == {k \in DOMAIN values : values[k].tag = "none"}
        slot == CHOOSE k \in free : \A m \in free : k <= m
    IN [values EXCEPT ![slot] = v]

\* Promise.all stores a fulfilled value at the index of its promise
AllCollect(values, j, v) == [values EXCEPT ![j] = v]

\* variant: a later rejection replaces the reason of the batch
AllSettleLast(j, v) ==
    IF v.tag = "buffer"
    THEN IF all.state # "pending" THEN all
         ELSE LET vals == AllCollect(all.values, j, v) IN
              [all EXCEPT !.values = vals,
                          !.state = IF \A k \in DOMAIN vals : vals[k].tag = "buffer"
                                    THEN "fulfilled" ELSE "pending"]
    ELSE [all EXCEPT !.state = "rejected", !.reason = v]

\* a job's promise settles: Promise.all takes note
AllSettle(j, v) ==
    IF all.state # "pending" THEN all
    ELSE IF v.tag = "buffer"
    THEN LET vals == AllCollect(all.values, j, v) IN
         [all EXCEPT !.values = vals,
                     !.state = IF \A k \in DOMAIN vals : vals[k].tag = "buffer"
                               THEN "fulfilled" ELSE "pending"]
    ELSE [all EXCEPT !.state = "rejected", !.reason = v]

Settle(j, v) ==
    /\ jobs' = [jobs EXCEPT ![j].pc = IF v.tag = "buffer" THEN "returned" ELSE "thrown",
                            ![j].out = v]
    /\ all' = AllSettle(j, v)
    /\ reordered' = (reordered \/ \E k \in 1..(j - 1) : Running(jobs[k]))

\* browser.newPage() resolves
NewPageOk(j) ==
    /\ j \in DOMAIN jobs
    /\ jobs[j].pc = "newPage"
    /\ jobs' = [jobs EXCEPT ![j].pc = TryStep["newPage"], ![j].opened = TRUE]
    /\ UNCHANGED <<env, owner, pauses, fontVars, pc, browser, launchCalls, newPageCalls, i, all, pdfBuffers, mi,
                   mergedPdf, error, response, faults, reordered>>

\* browser.newPage() rejects: the call is outside the try block
NewPageFail(j, e) ==
    /\ j \in DOMAIN jobs
    /\ jobs[j].pc = "newPage"
    /\ CanFail
    /\ faults' = faults + 1
    /\ Settle(j, e)
    /\ UNCHANGED <<env, owner, pauses, fontVars, pc, browser, launchCalls, newPageCalls, i, pdfBuffers, mi,
                   mergedPdf, error, response>>

\* an await of the try block resolves (not the last one, page.pdf)
StepOk(j) ==
    /\ j \in DOMAIN jobs
    /\ jobs[j].pc \in DOMAIN TryStep \ {"newPage"}
    /\ jobs' = [jobs EXCEPT ![j].pc = TryStep[jobs[j].pc],
                            ![j].pdfOptions = IF jobs[j].pc = "configure"
                                              THEN Spread(DEFAULT_PDF_OPTIONS, body.options)
                                              ELSE @,
                            ![j].renderTimeout =
                                IF jobs[j].pc = "configure"
                                THEN renderTimeoutOf(Spread(DEFAULT_PDF_OPTIONS, body.options))
                                ELSE @]
    /\ UNCHANGED <<env, owner, pauses, fontVars, pc, browser, launchCalls, newPageCalls, i, all, pdfBuffers, mi,
                   mergedPdf, error, response, faults, reordered>>

\* variant: no finally block, the session is left open when the try block fails
StepFailNoClose(j, e) ==
    /\ j \in DOMAIN jobs
    /\ jobs[j].pc \in {"configure", "setContent", "pdf"}
    /\ CanFail
    /\ faults' = faults + 1
    /\ jobs' = [jobs EXCEPT ![j].pc = "thrown", ![j].raw = e,
                            ![j].out = ClassifyRenderError(e)]
    /\ all' = AllSettle(j, ClassifyRenderError(e))
    /\ UNCHANGED <<env, owner, pauses, fontVars, pc, browser, launchCalls, newPageCalls, i, pdfBuffers, mi,
                   mergedPdf, error, response, reordered>>

\* an await of the try block rejects: catch classifies, finally calls page.close()
StepFail(j, e) ==
    /\ j \in DOMAIN jobs
    /\ jobs[j].pc \in {"configure", "setContent", "pdf"}
    /\ CanFail
    /\ faults' = faults + 1
    /\ jobs' = [jobs EXCEPT ![j].pc = "close", ![j].raw = e,
                            ![j].out = ClassifyRenderError(e),
                            ![j].closeCalls = jobs[j].closeCalls + 1]
    /\ UNCHANGED <<env, owner, pauses, fontVars, pc, browser, launchCalls, newPageCalls, i, all, pdfBuffers, mi,
                   mergedPdf, error, response, reordered>>

\* page.pdf() resolves with the page's bytes; finally calls page.close()
PdfOk(j, valid) ==
    /\ j \in DOMAIN jobs
    /\ jobs[j].pc = "pdf"
    /\ valid \/ CanFail
    /\ faults' = IF valid THEN faults ELSE faults + 1
    /\ jobs' = [jobs EXCEPT ![j].pc = "close",
                            ![j].out = Buffer(Printed(jobs[j].html), valid),
                            ![j].closeCalls = jobs[j].closeCalls + 1]
    /\ UNCHANGED <<env, owner, pauses, fontVars, pc, browser, launchCalls, newPageCalls, i, all, pdfBuffers, mi,
                   mergedPdf, error, response, reordered>>

\* page.close() resolves: the job returns its buffer or throws its envelope
PageCloseOk(j) ==
    /\ j \in DOMAIN jobs
    /\ jobs[j].pc = "close"
    /\ Settle(j, jobs[j].out)
    /\ UNCHANGED <<env, owner, pauses, fontVars, pc, browser, launchCalls, newPageCalls, i, pdfBuffers, mi,
                   mergedPdf, error, response, faults>>

\* page.close() rejects inside finally: its error replaces the job's outcome
PageCloseFail(j, e) ==
    /\ j \in DOMAIN jobs
    /\ jobs[j].pc = "close"
    /\ CanFail
    /\ faults' = faults + 1
    /\ Settle(j, e)
    /\ UNCHANGED <<env, owner, pauses, fontVars, pc, browser, launchCalls, newPageCalls, i, pdfBuffers, mi,
                   mergedPdf, error, response>>


\* ---------------------------------------------------------- route handler
\* asyncHandler's catch(next): the error handler writes the response
Fail(e) ==
    /\ response' = errorHandler(e)
    /\ pc' = "done"

\* variant: the catch block rethrows without closing the browser
CatchNoClose(e) ==
    /\ Fail(e)
    /\ UNCHANGED <<browser, error>>

\* the catch block: its parameter is bound to the failure in both branches;
\* with a browser, browser.close() is called and awaited
Catch(e) ==
    IF browser.launched
    THEN /\ browser' = [browser EXCEPT
                            !.closeCalls = browser.closeCalls + 1,
                            !.closed = @ \cup {BrowserRef(browser.id, Len(owner))}]
         /\ error' = e
         /\ pc' = "catchClose"
         /\ UNCHANGED response
    ELSE /\ Fail(e)
         /\ error' = e
         /\ UNCHANGED browser

\* variant: the handler does not test that the engine was loaded
ReceiveNoAvailabilityTest ==
    /\ pc = "start"
    /\ IF SchemaIssues(body) # <<>>
       THEN /\ Fail(ZodError(SchemaIssues(body)))
            /\ UNCHANGED fetchCalls
       ELSE IF N > maxPages
       THEN /\ response' = Response(400, "json",
                               createErrorResponse("VALIDATION_ERROR", MsgMaxPages(maxPages), Undefined))
            /\ pc' = "done"
            /\ UNCHANGED fetchCalls
       ELSE IF Truthy(body.font.family) /\ Truthy(body.font.url)
       THEN /\ pc' = "fetch"
            /\ fetchCalls' = fetchCalls + 1
            /\ UNCHANGED response
       ELSE /\ pc' = "getBrowserOptions"
            /\ UNCHANGED <<response, fetchCalls>>
    /\ UNCHANGED <<env, owner, pauses, fontCSS, base64Font, browser, launchCalls, newPageCalls, i, jobs, all,
                   pdfBuffers, mi, mergedPdf, error, faults, reordered>>

\* variant: the font is downloaded whenever the descriptor has a family key
ReceiveFetchAnyFamily ==
    /\ pc = "start"
    /\ IF ~puppeteer
       THEN /\ response' = Response(500, "json",
                               createErrorResponse("UNKNOWN_ERROR", MsgNoPuppeteer, Undefined))
            /\ pc' = "done"
            /\ UNCHANGED fetchCalls
       ELSE IF SchemaIssues(body) # <<>>
       THEN /\ Fail(ZodError(SchemaIssues(body)))
            /\ UNCHANGED fetchCalls
       ELSE IF N > maxPages
       THEN /\ response' = Response(400, "json",
                               createErrorResponse("VALIDATION_ERROR", MsgMaxPages(maxPages), Undefined))
            /\ pc' = "done"
            /\ UNCHANGED fetchCalls
       ELSE IF body.font.family # Absent
       THEN /\ pc' = "fetch"
            /\ fetchCalls' = fetchCalls + 1
            /\ UNCHANGED response
       ELSE /\ pc' = "getBrowserOptions"
            /\ UNCHANGED <<response, fetchCalls>>
    /\ UNCHANGED <<env, owner, pauses, fontCSS, base64Font, browser, launchCalls, newPageCalls, i, jobs, all,
                   pdfBuffers, mi, mergedPdf, error, faults, reordered>>

\* the handler from its entry to its first await (or to its early response)
Receive ==
    /\ pc = "start"
    /\ IF ~puppeteer
       THEN /\ response' = Response(500, "json",
                               createErrorResponse("UNKNOWN_ERROR", MsgNoPuppeteer, Undefined))
            /\ pc' = "done"
            /\ UNCHANGED fetchCalls
       ELSE IF SchemaIssues(body) # <<>>
       THEN /\ Fail(ZodError(SchemaIssues(body)))
            /\ UNCHANGED fetchCalls
       ELSE IF N > maxPages
       THEN /\ response' = Response(400, "json",
                               createErrorResponse("VALIDATION_ERROR", MsgMaxPages(maxPages), Undefined))
            /\ pc' = "done"
            /\ UNCHANGED fetchCalls
       ELSE IF Truthy(body.font.family) /\ Truthy(body.font.url)
       THEN /\ pc' = "fetch"
            /\ fetchCalls' = fetchCalls + 1
            /\ UNCHANGED response
       ELSE /\ pc' = "getBrowserOptions"
            /\ UNCHANGED <<response, fetchCalls>>
    /\ UNCHANGED <<env, owner, pauses, fontCSS, base64Font, browser, launchCalls, newPageCalls, i, jobs, all,
                   pdfBuffers, mi, mergedPdf, error, faults, reordered>>

\* downloadAndEncodeFont: fetch() resolves with an ok response
FetchOk ==
    /\ pc = "fetch"
    /\ pc' = "arrayBuffer"
    /\ UNCHANGED <<env, owner, pauses, fontVars, browser, launchCalls, newPageCalls, i, jobs, all, pdfBuffers,
                   mi, mergedPdf, error, response, faults, reordered>>

\* what makes the download fail at fetch(): the call rejects, its 10 s signal
\* aborts it, or the response is not ok
FetchFailures == {"TypeError", "TimeoutError", "HTTP 404"}

\* downloadAndEncodeFont returns null from its catch block
FetchFail(failure) ==
    /\ pc = "fetch"
    /\ failure \in FetchFailures
    /\ base64Font' = Null
    /\ pc' = "getBrowserOptions"
    /\ UNCHANGED <<env, owner, pauses, fontCSS, fetchCalls, browser, launchCalls, newPageCalls, i, jobs, all, pdfBuffers,
                   mi, mergedPdf, error, response, faults, reordered>>

\* byte lengths of the payload a font URL may serve
PayloadSizes == {0, DocumentedFontSizeLimit + DocumentedFontSizeLimit \div 2,
                 FontSizeLimit, FontSizeLimit + 1}

\* variant: a payload above the ceiling fails the request
ArrayBufferOkStrict(byteLength) ==
    /\ pc = "arrayBuffer"
    /\ IF byteLength > FontSizeLimit
       THEN /\ Fail(createErrorResponse("RENDER_ERROR", MsgRender, Undefined))
            /\ base64Font' = Null
            /\ UNCHANGED fontCSS
       ELSE /\ base64Font' = String(Base64(byteLength))
            /\ fontCSS' = IF Base64(byteLength) # 0
                          THEN generateFontCSS(body.font, Base64(byteLength))
                          ELSE fontCSS
            /\ pc' = "getBrowserOptions"
            /\ UNCHANGED response
    /\ UNCHANGED <<env, owner, pauses, fetchCalls, browser, launchCalls, newPageCalls, i, jobs, all,
                   pdfBuffers, mi, mergedPdf, error, faults, reordered>>

\* response.arrayBuffer() resolves: null above the ceiling, else the base64
\* text, of which the handler makes the font rule unless it is empty
ArrayBufferOk(byteLength) ==
    /\ pc = "arrayBuffer"
    /\ base64Font' = IF byteLength > FontSizeLimit THEN Null ELSE String(Base64(byteLength))
    /\ fontCSS' = IF byteLength <= FontSizeLimit /\ Base64(byteLength) # 0
                  THEN generateFontCSS(body.font, Base64(byteLength))
                  ELSE fontCSS
    /\ pc' = "getBrowserOptions"
    /\ UNCHANGED <<env, owner, pauses, fetchCalls, browser, launchCalls, newPageCalls, i, jobs, all,
                   pdfBuffers, mi, mergedPdf, error, response, faults, reordered>>

\* response.arrayBuffer() rejects: null from the catch block
ArrayBufferFail ==
    /\ pc = "arrayBuffer"
    /\ base64Font' = Null
    /\ pc' = "getBrowserOptions"
    /\ UNCHANGED <<env, owner, pauses, fontCSS, fetchCalls, browser, launchCalls, newPageCalls, i, jobs, all, pdfBuffers,
                   mi, mergedPdf, error, response, faults, reordered>>

\* getBrowserOptions() resolves: puppeteer.launch is called
BrowserOptionsOk ==
    /\ pc = "getBrowserOptions"
    /\ pc' = "launch"
    /\ launchCalls' = launchCalls + 1
    /\ UNCHANGED <<env, owner, pauses, fontVars, browser, newPageCalls, i, jobs, all, pdfBuffers, mi, mergedPdf,
                   error, response, faults, reordered>>

\* getBrowserOptions() rejects (chromium.executablePath() in deployment mode)
BrowserOptionsFail(e) ==
    /\ pc = "getBrowserOptions"
    /\ isVercel
    /\ CanFail
    /\ faults' = faults + 1
    /\ Catch(e)
    /\ UNCHANGED <<env, owner, pauses, fontVars, launchCalls, newPageCalls, i, jobs, all, pdfBuffers, mi, mergedPdf,
                   reordered>>

\* variant: the loop tests its condition after the body (do ... while)
LaunchOkDoWhile ==
    /\ pc = "launch"
    /\ owner' = Append(owner, rid)
    /\ browser' = [browser EXCEPT !.launched = TRUE, !.id = Len(owner) + 1]
    /\ pdfBuffers' = <<>>
    /\ IF 0 <= N
       THEN /\ StartWindow(0, BrowserRef(Len(owner) + 1, Len(owner) + 1))
            /\ pc' = "awaitAll"
       ELSE /\ pc' = "create"
            /\ UNCHANGED <<jobs, all, newPageCalls, i>>
    /\ UNCHANGED <<env, pauses, fontVars, launchCalls, mi, mergedPdf, error, response, faults, reordered>>

\* puppeteer.launch resolves: the first window starts (none for no pages)
LaunchOk ==
    /\ pc = "launch"
    /\ owner' = Append(owner, rid)
    /\ browser' = [browser EXCEPT !.launched = TRUE, !.id = Len(owner) + 1]
    /\ pdfBuffers' = <<>>
    /\ IF 0 < N
       THEN /\ StartWindow(0, BrowserRef(Len(owner) + 1, Len(owner) + 1))
            /\ pc' = "awaitAll"
       ELSE /\ pc' = "create"
            /\ UNCHANGED <<jobs, all, newPageCalls, i>>
    /\ UNCHANGED <<env, pauses, fontVars, launchCalls, mi, mergedPdf, error, response, faults, reordered>>

\* puppeteer.launch rejects
LaunchFail(e) ==
    /\ pc = "launch"
    /\ CanFail
    /\ faults' = faults + 1
    /\ Catch(e)
    /\ UNCHANGED <<env, owner, pauses, fontVars, launchCalls, newPageCalls, i, jobs, all, pdfBuffers, mi, mergedPdf,
                   reordered>>

\* pdfBuffers.push(...chunkResults)
PushResults(buffers, results) == buffers \o results

\* variant: the pause is taken after the last window too
WindowDoneAlwaysPause ==
    /\ pc = "awaitAll"
    /\ all.state = "fulfilled"
    /\ pdfBuffers' = PushResults(pdfBuffers, all.values)
    /\ pc' = IF i + maxConcurrency <= N THEN "pause" ELSE "create"
    /\ pauses' = IF i + maxConcurrency <= N THEN pauses + 1 ELSE pauses
    /\ UNCHANGED <<env, owner, fontVars, browser, launchCalls, newPageCalls, i, jobs, all, mi, mergedPdf,
                   error, response, faults, reordered>>

\* Promise.all fulfilled: collect, then pause (setTimeout of 5 ms) or leave the loop
WindowDone ==
    /\ pc = "awaitAll"
    /\ all.state = "fulfilled"
    /\ pdfBuffers' = PushResults(pdfBuffers, all.values)
    /\ pc' = IF i + maxConcurrency < N THEN "pause" ELSE "create"
    /\ pauses' = IF i + maxConcurrency < N THEN pauses + 1 ELSE pauses
    /\ UNCHANGED <<env, owner, fontVars, browser, launchCalls, newPageCalls, i, jobs, all, mi, mergedPdf,
                   error, response, faults, reordered>>

\* variant: a failed window is skipped and the merge goes on with what there is
WindowFailedContinue ==
    /\ pc = "awaitAll"
    /\ all.state = "rejected"
    /\ pc' = "create"
    /\ UNCHANGED <<env, owner, pauses, fontVars, browser, launchCalls, newPageCalls, i, jobs, all, pdfBuffers, mi,
                   mergedPdf, error, response, faults, reordered>>

\* Promise.all rejected: the handler's catch block takes the first rejection
\* the window awaited with Promise.allSettled: the loop goes on after a
\* rejected job
WindowFailedSettled ==
    /\ pc = "awaitAll"
    /\ all.state = "rejected"
    /\ pc' = IF i + maxConcurrency < N THEN "pause" ELSE "create"
    /\ UNCHANGED <<env, owner, pauses, fontVars, browser, error, response, launchCalls, newPageCalls, i, jobs, all,
                   pdfBuffers, mi, mergedPdf, faults, reordered>>

WindowFailed ==
    /\ pc = "awaitAll"
    /\ all.state = "rejected"
    /\ Catch(all.reason)
    /\ UNCHANGED <<env, owner, pauses, fontVars, launchCalls, newPageCalls, i, jobs, all, pdfBuffers, mi, mergedPdf,
                   faults, reordered>>

\* the 5 ms pause is over: next window
Pause ==
    /\ pc = "pause"
    /\ StartWindow(i + maxConcurrency, BrowserRef(browser.id, Len(owner)))
    /\ pc' = "awaitAll"
    /\ UNCHANGED <<env, owner, pauses, fontVars, browser, launchCalls, pdfBuffers, mi, mergedPdf, error, response,
                   faults, reordered>>

\* PDFDocument.create() resolves: the merge loop starts
Create ==
    /\ pc = "create"
    /\ mergedPdf' = <<>>
    /\ mi' = 0
    /\ pc' = IF 0 < Len(pdfBuffers) THEN "load" ELSE "save"
    /\ UNCHANGED <<env, owner, pauses, fontVars, browser, launchCalls, newPageCalls, i, jobs, all, pdfBuffers,
                   error, response, faults, reordered>>

\* PDFDocument.load(buf) resolves for a well-formed buffer
LoadOk ==
    /\ pc = "load"
    /\ pdfBuffers[mi + 1].valid
    /\ pc' = "copyPages"
    /\ UNCHANGED <<env, owner, pauses, fontVars, browser, launchCalls, newPageCalls, i, jobs, all, pdfBuffers, mi,
                   mergedPdf, error, response, faults, reordered>>

\* PDFDocument.load(buf) rejects for bytes that are no PDF
LoadFail ==
    /\ pc = "load"
    /\ ~pdfBuffers[mi + 1].valid
    /\ Catch(EInvalidPdf)
    /\ UNCHANGED <<env, owner, pauses, fontVars, launchCalls, newPageCalls, i, jobs, all, pdfBuffers, mi, mergedPdf,
                   faults, reordered>>

\* copyPages resolves: the pages are added, the loop goes on
CopyPages ==
    /\ pc = "copyPages"
    /\ mergedPdf' = Append(mergedPdf, pdfBuffers[mi + 1].src)
    /\ mi' = mi + 1
    /\ pc' = IF mi + 1 < Len(pdfBuffers) THEN "load" ELSE "save"
    /\ UNCHANGED <<env, owner, pauses, fontVars, browser, launchCalls, newPageCalls, i, jobs, all, pdfBuffers,
                   error, response, faults, reordered>>

\* mergedPdf.save() resolves: browser.close() is called
Save ==
    /\ pc = "save"
    /\ browser' = [browser EXCEPT
                       !.closeCalls = browser.closeCalls + 1,
                       !.closed = @ \cup {BrowserRef(browser.id, Len(owner))}]
    /\ pc' = "close"
    /\ UNCHANGED <<env, owner, pauses, fontVars, launchCalls, newPageCalls, i, jobs, all, pdfBuffers, mi, mergedPdf,
                   error, response, faults, reordered>>

\* browser.close() resolves: headers are set and the bytes are sent
CloseOk ==
    /\ pc = "close"
    /\ response' = Response(200, "pdf", mergedPdf)
    /\ pc' = "done"
    /\ UNCHANGED <<env, owner, pauses, fontVars, browser, launchCalls, newPageCalls, i, jobs, all, pdfBuffers, mi,
                   mergedPdf, error, faults, reordered>>

\* browser.close() rejects on the success path: the catch block runs
CloseFail(e) ==
    /\ pc = "close"
    /\ CanFail
    /\ faults' = faults + 1
    /\ Catch(e)
    /\ UNCHANGED <<env, owner, pauses, fontVars, launchCalls, newPageCalls, i, jobs, all, pdfBuffers, mi, mergedPdf,
                   reordered>>

\* browser.close() resolves, then res.setHeader (or res.send) throws, as for
\* a filename with a character no header value may carry: the catch block runs
SendFail ==
    /\ pc = "close"
    /\ CanFail
    /\ faults' = faults + 1
    /\ Catch(EInvalidChar)
    /\ UNCHANGED <<env, owner, pauses, fontVars, launchCalls, newPageCalls, i, jobs, all, pdfBuffers, mi, mergedPdf,
                   reordered>>

\* browser.close() of the catch block settles, either way: the error is rethrown
CatchCloseOk ==
    /\ pc = "catchClose"
    /\ Fail(error)
    /\ UNCHANGED <<env, owner, pauses, fontVars, browser, launchCalls, newPageCalls, i, jobs, all, pdfBuffers, mi,
                   mergedPdf, error, faults, reordered>>

CatchCloseFail(e) ==
    /\ pc = "catchClose"
    /\ CanFail
    /\ faults' = faults + 1
    /\ Fail(error)
    /\ UNCHANGED <<env, owner, pauses, fontVars, browser, launchCalls, newPageCalls, i, jobs, all, pdfBuffers, mi,
                   mergedPdf, error, reordered>>

\* ---------------------------------------------------------- specification
\* a window never holds more jobs than the larger concurrency limit
JobIds == 1..LocalConcurrency

\* the steps in which every call resolves
NextOk ==
    \/ Receive
    \/ FetchOk
    \/ \E byteLength \in PayloadSizes : ArrayBufferOk(byteLength)
    \/ BrowserOptionsOk
    \/ LaunchOk
    \/ WindowDone
    \/ Pause
    \/ Create
    \/ LoadOk
    \/ CopyPages
    \/ Save
    \/ CloseOk
    \/ \E j \in JobIds : NewPageOk(j)
    \/ \E j \in JobIds : StepOk(j)
    \/ \E j \in JobIds : PdfOk(j, TRUE)
    \/ \E j \in JobIds : PageCloseOk(j)

\* the steps in which a call rejects, and what follows a rejection
NextFault ==
    \/ \E failure \in FetchFailures : FetchFail(failure)
    \/ ArrayBufferFail
    \/ \E e \in EngineErrors : BrowserOptionsFail(e)
    \/ \E e \in EngineErrors : LaunchFail(e)
    \/ WindowFailed
    \/ LoadFail
    \/ \E e \in EngineErrors : CloseFail(e)
    \/ SendFail
    \/ CatchCloseOk
    \/ \E e \in EngineErrors : CatchCloseFail(e)
    \/ \E j \in JobIds, e \in EngineErrors : NewPageFail(j, e)
    \/ \E j \in JobIds, e \in RawErrors : StepFail(j, e)
    \/ \E j \in JobIds : PdfOk(j, FALSE)
    \/ \E j \in JobIds, e \in EngineErrors : PageCloseFail(j, e)

Next == NextOk \/ NextFault

Spec == Init /\ [][Next]_vars

TypeOK ==
    /\ pc \in {"start", "fetch", "arrayBuffer", "getBrowserOptions", "launch", "awaitAll", "pause", "create",
               "load", "copyPages", "save", "close", "catchClose", "done"}
    /\ faults \in 0..MaxFaults
    /\ browser.closeCalls \in 0..2

\* Requests at the page-count ceilings of both profiles, every call resolving.
CeilingBodies ==
    {Body(Marked(n), NoOptions, NoFont) :
        n \in {1, 7, VercelMaxPages, VercelMaxPages + 1, LocalMaxPages, LocalMaxPages + 1}}
        \cup {Body(Marked(n), NoOptions, FontOptions("Inter", FontUrl)) : n \in {1, 4}}

InitCeiling ==
    /\ isVercel \in BOOLEAN
    /\ puppeteer \in BOOLEAN
    /\ body \in CeilingBodies
    /\ Idle
    /\ Alone

SpecCeiling == InitCeiling /\ [][NextOk]_vars

\* ---------------------------------------------------------- the batching loop
\* The loop taken by itself, from the launch it follows to the merge it
\* precedes, run on a list of any length, every call resolving.  The empty
\* list is among them: the loop is then entered with what the validator of
\* the running handler would not let through.
SchedulerBodies == {Body(Marked(n), NoOptions, NoFont) : n \in 0..MaxPages}

InitScheduler ==
    /\ isVercel \in BOOLEAN
    /\ puppeteer = TRUE
    /\ body \in SchedulerBodies
    /\ pc = "launch"
    /\ launchCalls = 1
    /\ browser = NoBrowser
    /\ newPageCalls = 0
    /\ i = 0
    /\ jobs = <<>>
    /\ all = NoAll
    /\ pdfBuffers = <<>>
    /\ mi = 0
    /\ mergedPdf = <<>>
    /\ error = NoValue
    /\ response = NoResponse
    /\ faults = 0
    /\ fontCSS = NoCss
    /\ fetchCalls = 0
    /\ base64Font = Unset
    /\ owner = <<>>
    /\ pauses = 0
    /\ reordered = FALSE
    /\ Alone

NextScheduler ==
    \/ LaunchOk
    \/ WindowDone
    \/ Pause
    \/ \E j \in JobIds : NewPageOk(j)
    \/ \E j \in JobIds : StepOk(j)
    \/ \E j \in JobIds : PdfOk(j, TRUE)
    \/ \E j \in JobIds : PageCloseOk(j)

\* the event loop runs every continuation that is ready
SpecScheduler == InitScheduler /\ [][NextScheduler]_vars /\ WF_vars(NextScheduler)

\* ------------------------------------------------------ two requests at once
\* Node runs one handler at a time and changes handler only at an await.
\* The variables of the request that is not running are kept in `parked`; the
\* event loop resuming the other handler exchanges the two.
Switch ==
    /\ parked.rid # 0
    /\ parked' = [rid |-> rid, body |-> body, pc |-> pc, browser |-> browser,
                  launchCalls |-> launchCalls, newPageCalls |-> newPageCalls, i |-> i,
                  jobs |-> jobs, all |-> all, pdfBuffers |-> pdfBuffers, mi |-> mi,
                  mergedPdf |-> mergedPdf, error |-> error, response |-> response,
                  fontCSS |-> fontCSS, fetchCalls |-> fetchCalls,
                  base64Font |-> base64Font, pauses |-> pauses, reordered |-> reordered]
    /\ rid' = parked.rid
    /\ body' = parked.body
    /\ pc' = parked.pc
    /\ browser' = parked.browser
    /\ launchCalls' = parked.launchCalls
    /\ newPageCalls' = parked.newPageCalls
    /\ i' = parked.i
    /\ jobs' = parked.jobs
    /\ all' = parked.all
    /\ pdfBuffers' = parked.pdfBuffers
    /\ mi' = parked.mi
    /\ mergedPdf' = parked.mergedPdf
    /\ error' = parked.error
    /\ response' = parked.response
    /\ fontCSS' = parked.fontCSS
    /\ fetchCalls' = parked.fetchCalls
    /\ base64Font' = parked.base64Font
    /\ pauses' = parked.pauses
    /\ reordered' = parked.reordered
    /\ UNCHANGED <<isVercel, puppeteer, faults, owner, intercepted>>

\* largest number of pages of the first of two concurrent requests
MaxPagesOfTwo == 1

TwoBodies == {Body(Marked(n), NoOptions, NoFont) : n \in 0..MaxPagesOfTwo}

\* the first request has up to MaxPagesOfTwo pages, the second has one page,
\* and at most two calls reject while the two are served
InitTwo ==
    /\ isVercel \in BOOLEAN
    /\ puppeteer = TRUE
    /\ body \in TwoBodies
    /\ Quiet
    /\ faults = MaxFaults - 2
    /\ rid = 1
    /\ parked = Fresh(2, Body(Marked(1), NoOptions, NoFont))
    /\ intercepted = NoRequest

\* the steps of two requests of one window each and without a font (the
\* pause between windows and the font download cannot occur)
NextTwo ==
    \/ Switch
    \/ Receive
    \/ BrowserOptionsOk
    \/ LaunchOk
    \/ WindowDone
    \/ Create
    \/ LoadOk
    \/ CopyPages
    \/ Save
    \/ CloseOk
    \/ \E j \in JobIds : NewPageOk(j)
    \/ \E j \in JobIds : StepOk(j)
    \/ \E j \in JobIds : PdfOk(j, TRUE)
    \/ \E j \in JobIds : PageCloseOk(j)
    \/ \E e \in EngineErrors : BrowserOptionsFail(e)
    \/ \E e \in EngineErrors : LaunchFail(e)
    \/ WindowFailed
    \/ LoadFail
    \/ \E e \in EngineErrors : CloseFail(e)
    \/ SendFail
    \/ CatchCloseOk
    \/ \E e \in EngineErrors : CatchCloseFail(e)
    \/ \E j \in JobIds, e \in EngineErrors : NewPageFail(j, e)
    \/ \E j \in JobIds, e \in RawErrors : StepFail(j, e)
    \/ \E j \in JobIds : PdfOk(j, FALSE)
    \/ \E j \in JobIds, e \in EngineErrors : PageCloseFail(j, e)

SpecTwo == InitTwo /\ [][NextTwo]_vars

\* ------------------------------------------------------ resource admission
\* generatePagePdf is in the repository twice, and the two differ in the
\* handler they install with page.on('request').
ResourceTypes ==
    {"document", "stylesheet", "image", "media", "font", "script", "texttrack", "xhr",
     "fetch", "prefetch", "eventsource", "websocket", "manifest", "signedexchange",
     "ping", "cspviolationreport", "preflight", "other"}

\* a URL is the sequence of the pieces of its text
Urls ==
    {<<"https://", host, "/asset">> :
        host \in {"example.com", "fonts.googleapis.com", "fonts.gstatic.com",
                  "cdn.jsdelivr.net", "cdnjs.cloudflare.com", "unpkg.com"}}
        \cup {<<"data:", "font/woff2;base64">>}

\* the handler of the part_001 listing
onRequest(resourceType, url) ==
    IF resourceType \in {"document", "script", "stylesheet", "font", "image"}
    THEN IF \/ resourceType = "font"
            \/ resourceType = "image"
            \/ Includes(url, "fonts.googleapis.com")
            \/ Includes(url, "fonts.gstatic.com")
            \/ Includes(url, "cdn.jsdelivr.net")
            \/ Includes(url, "cdnjs.cloudflare.com")
            \/ Includes(url, "unpkg.com")
         THEN "continue"
         ELSE IF resourceType \in {"document", "script", "stylesheet"}
         THEN "continue"
         ELSE "abort"
    ELSE "abort"

\* the handler of src/app.ts
onRequestApp(resourceType, url) ==
    IF resourceType \in {"document", "script"} THEN "continue" ELSE "abort"

Sources == {"src/unnamed/part_001", "src/src/app.ts"}

InitPolicy ==
    /\ isVercel \in BOOLEAN
    /\ puppeteer = TRUE
    /\ body = Body(Marked(1), NoOptions, NoFont)
    /\ Idle
    /\ rid = 1
    /\ parked = NoContext
    /\ intercepted \in [source : Sources, resourceType : ResourceTypes, url : Urls,
                         decision : {"pending"}]

\* a page built by part_001 makes a request: the handler continues or aborts it
Intercept ==
    /\ intercepted.decision = "pending"
    /\ intercepted.source = "src/unnamed/part_001"
    /\ intercepted' = [intercepted EXCEPT
                           !.decision = onRequest(intercepted.resourceType, intercepted.url)]
    /\ UNCHANGED <<isVercel, puppeteer, body, rid, parked, owner, pauses, fontVars, pc, browser,
                   launchCalls, newPageCalls, i, jobs, all, pdfBuffers, mi, mergedPdf, error,
                   response, faults, reordered>>

\* the same for a page built by src/app.ts
InterceptApp ==
    /\ intercepted.decision = "pending"
    /\ intercepted.source = "src/src/app.ts"
    /\ intercepted' = [intercepted EXCEPT
                           !.decision = onRequestApp(intercepted.resourceType, intercepted.url)]
    /\ UNCHANGED <<isVercel, puppeteer, body, rid, parked, owner, pauses, fontVars, pc, browser,
                   launchCalls, newPageCalls, i, jobs, all, pdfBuffers, mi, mergedPdf, error,
                   response, faults, reordered>>

NextPolicy == Intercept \/ InterceptApp

SpecPolicy == InitPolicy /\ [][NextPolicy]_vars

\* ----------------------------------------------------------------- claims
Merging == pc \in {"create", "load", "copyPages", "save", "close"}
JobFailed == \E j \in DOMAIN jobs : jobs[j].pc = "thrown"
ErrorSent == pc = "done" /\ response.kind = "json"
RenderKinds == {"TIMEOUT_ERROR", "RESOURCE_ERROR", "RENDER_ERROR"}

\* C1: the page buffers handed to the merge step are those of pages 0..N-1 in
\* that order, whatever the order in which the jobs of a window completed.
C1_BuffersInPageOrder ==
    /\ Len(pdfBuffers) <= N
    /\ \A k \in 1..Len(pdfBuffers) :
          pdfBuffers[k].tag = "buffer" /\ pdfBuffers[k].src = pages[k]
    /\ Merging => Len(pdfBuffers) = N

\* a second window was collected and some job overtook a job of lower index
C1_Witness == pc = "create" /\ reordered /\ i > 0 /\ Len(pdfBuffers) = N

\* C2: once a render job has failed no PDF is sent, the request ends with an
\* error envelope, and no further window is started.
C2_NoPartialPdf ==
    /\ [](JobFailed =>
            /\ response.kind # "pdf"
            /\ pc = "done" => (response.kind = "json" /\ response.status = 500
                               /\ response.body.tag = "envelope"))
    /\ [][JobFailed => (newPageCalls' = newPageCalls /\ i' = i)]_vars

\* a job failed, a sibling returned its buffer, a window was still to come
C2_Witness ==
    /\ ErrorSent
    /\ JobFailed
    /\ \E k \in DOMAIN jobs : jobs[k].pc = "returned"
    /\ i + maxConcurrency < N

\* C3: a request that launched a browser has called browser.close() before
\* its response is written, on every exit path.
C3_BrowserClosedBeforeResponse ==
    (browser.launched /\ response.kind # "none") => browser.closeCalls >= 1

\* an error envelope for a render that timed out, the browser closed
C3_Witness ==
    /\ ErrorSent
    /\ browser.launched
    /\ browser.closeCalls >= 1
    /\ response.body.type = "TIMEOUT_ERROR"

\* C4: a cleanup failure while a failure is handled does not change the kind
\* and message of the envelope: they are those of the original failure.
C4_CleanupFailureSwallowed ==
    \A j \in DOMAIN jobs :
        (/\ ErrorSent
         /\ jobs[j].pc = "thrown"
         /\ jobs[j].raw.tag = "raw"
         /\ \A k \in DOMAIN jobs \ {j} : jobs[k].pc # "thrown")
        => /\ response.body.type = ClassifyRenderError(jobs[j].raw).type
           /\ response.body.message = ClassifyRenderError(jobs[j].raw).message

\* C5: a job that has returned or thrown has called page.close() on the
\* session it opened: none of its sessions is open.
C5_SessionClosedAtJobEnd ==
    \A j \in DOMAIN jobs :
        /\ jobs[j].closeCalls <= 1
        /\ jobs[j].closeCalls = 1 => jobs[j].opened
        /\ (~Running(jobs[j]) /\ jobs[j].opened) => jobs[j].closeCalls = 1

\* a job whose try block failed has thrown, its session closed
C5_Witness ==
    \E j \in DOMAIN jobs :
        /\ jobs[j].pc = "thrown"
        /\ jobs[j].raw.tag = "raw"
        /\ jobs[j].opened
        /\ jobs[j].closeCalls = 1

InvalidBody ==
    \/ Len(pages) < 1
    \/ \E k \in DOMAIN pages : pages[k] = 0
    \/ (body.options.timeout # 0 /\ body.options.timeout < 1000)
    \/ body.options.timeout > 60000

ValidationSent ==
    /\ ErrorSent
    /\ response.status = 400
    /\ response.body.type = "VALIDATION_ERROR"

\* C6 as stated: a request that fails validation is answered with a
\* ValidationError envelope and opens no renderer.
C6_InvalidGetsValidationError ==
    InvalidBody =>
        /\ launchCalls = 0
        /\ newPageCalls = 0
        /\ pc = "done" => ValidationSent

\* C6, amended: with the rendering engine loaded, a request that fails
\* validation is answered with a ValidationError envelope; without it the
\* answer is the UnknownError of the availability test; in both cases neither
\* puppeteer.launch nor browser.newPage is called.
C6_InvalidOpensNoRenderer ==
    InvalidBody =>
        /\ launchCalls = 0
        /\ newPageCalls = 0
        /\ ~browser.launched
        /\ (pc = "done" /\ puppeteer) => ValidationSent
        /\ (pc = "done" /\ ~puppeteer) =>
              (response.status = 500 /\ response.body.type = "UNKNOWN_ERROR")

\* pages = [] was answered with a ValidationError
C6_Witness == pages = <<>> /\ puppeteer /\ ValidationSent

Ceiling == IF isVercel THEN VercelMaxPages ELSE LocalMaxPages

\* C7 as stated: a schema-valid request gets a ValidationError exactly when
\* it has more pages than the ceiling.
C7_RejectedIffOverCeiling ==
    (pc = "done" /\ ~InvalidBody) => (ValidationSent <=> N > Ceiling)

\* C7, amended: with the rendering engine loaded, a schema-valid request is
\* rejected with a ValidationError (400) exactly when it has more pages than
\* the ceiling of the profile; the message states that ceiling; no browser is
\* launched for it; a request of exactly ceiling pages is accepted.
C7_CeilingWithEngine ==
    (puppeteer /\ ~InvalidBody) =>
        /\ pc = "done" => (ValidationSent <=> N > Ceiling)
        /\ (pc = "done" /\ N > Ceiling) =>
              response.body.message = <<"Maximum ", Ceiling, " pages allowed.">>
        /\ N > Ceiling => (launchCalls = 0 /\ newPageCalls = 0)
        /\ (pc = "done" /\ N <= Ceiling) => (launchCalls = 1 /\ response.status = 200)

\* one page too many was rejected
C7_Witness == puppeteer /\ N = Ceiling + 1 /\ ValidationSent /\ launchCalls = 0

\* C8: a page buffer that is no valid PDF makes the request fail with a
\* RenderError envelope.
C8_InvalidBufferIsRenderError ==
    (ErrorSent /\ error = EInvalidPdf) => response.body.type = "RENDER_ERROR"

\* C9: a render job never fails with an unclassified error.
C9_JobErrorsClassified ==
    \A j \in DOMAIN jobs :
        jobs[j].pc = "thrown" =>
            (jobs[j].out.tag = "envelope" /\ jobs[j].out.type \in RenderKinds)

\* C10: the try block's error is classified first match first (timeout name,
\* then net:: in the message, then render), details being its message.
C10_ClassificationOrder ==
    \A j \in DOMAIN jobs :
        (jobs[j].raw.tag = "raw" /\ jobs[j].out.tag = "envelope") =>
            /\ jobs[j].out.type =
                  IF jobs[j].raw.name = "TimeoutError" THEN "TIMEOUT_ERROR"
                  ELSE IF Includes(jobs[j].raw.message, "net::") THEN "RESOURCE_ERROR"
                  ELSE "RENDER_ERROR"
            /\ jobs[j].out.details = jobs[j].raw.message

\* a timeout whose message names net:: was classified as a timeout
C10_Witness ==
    \E j \in DOMAIN jobs :
        /\ jobs[j].raw = ETimeoutNet
        /\ jobs[j].out.tag = "envelope"
        /\ jobs[j].out.type = "TIMEOUT_ERROR"
        /\ jobs[j].out.details = ETimeoutNet.message

Kinds == RenderKinds \cup {"VALIDATION_ERROR", "UNKNOWN_ERROR"}

\* C11: the error handler answers an uncaught failure with exactly one
\* envelope: a schema failure becomes a VALIDATION_ERROR, a failure that
\* already is an envelope is sent unchanged, and any other failure becomes an
\* UNKNOWN_ERROR whose details are the failure's message.
C11_HandlerPrecedence ==
    /\ (pc = "done" /\ puppeteer /\ InvalidBody) =>
          /\ response.kind = "json"
          /\ response.body.tag = "envelope"
          /\ response.body.type = "VALIDATION_ERROR"
    /\ (pc = "done" /\ error.tag = "envelope") =>
          response = [status |-> 500, kind |-> "json", body |-> error]
    /\ (pc = "done" /\ error.tag = "raw") =>
          /\ response.kind = "json"
          /\ response.body.tag = "envelope"
          /\ response.body.type = "UNKNOWN_ERROR"
          /\ response.body.message = <<"Failed to generate PDF.">>
          /\ response.body.details = error.message

\* a classified render failure reached the error handler and was sent as is
C11_Witness ==
    /\ pc = "done"
    /\ error.tag = "envelope"
    /\ error.type \in RenderKinds
    /\ response.body = error

\* C12: an error response has status 400 exactly when its kind is
\* VALIDATION_ERROR, and status 500 for each of the other four kinds.
C12_StatusFollowsKind ==
    response.kind = "json" =>
        /\ response.body.tag = "envelope"
        /\ response.body.type \in Kinds
        /\ response.status = (IF response.body.type = "VALIDATION_ERROR" THEN 400 ELSE 500)

\* the handler's own page-count rejection and its status
C12_Witness ==
    /\ ErrorSent
    /\ N > Ceiling
    /\ response.status = 400
    /\ response.body.type = "VALIDATION_ERROR"

\* C13: when the engine could not be loaded the request is answered 500 with
\* an UNKNOWN_ERROR envelope, and nothing is launched or opened.
C13_NoEngineNoLaunch ==
    ~puppeteer =>
        /\ pc \in {"start", "done"}
        /\ launchCalls = 0
        /\ newPageCalls = 0
        /\ ~browser.launched
        /\ pc = "done" =>
              response = [status |-> 500, kind |-> "json",
                          body |-> [tag |-> "envelope", type |-> "UNKNOWN_ERROR",
                                    message |-> <<"Puppeteer is not available in this environment.">>,
                                    details |-> <<>>]]

\* a well-formed request was answered while the engine was unavailable
C13_Witness ==
    /\ ~puppeteer
    /\ pc = "done"
    /\ ~InvalidBody
    /\ N > 0
    /\ response.status = 500
    /\ response.body.type = "UNKNOWN_ERROR"

HasStyle(html) == \E k \in DOMAIN html : html[k].css # NoCss

\* C14: a font download that ends in null (fetch rejected, timed out, not
\* ok, or payload above the ceiling) never fails the request: the font steps
\* write no response, no page is given a style block, and unless an engine
\* call rejects the request is answered with the PDF of all its pages.
C14_FontFailureNotFatal ==
    /\ [](base64Font.kind = "null" =>
            /\ fontCSS = NoCss
            /\ \A j \in DOMAIN jobs : ~HasStyle(jobs[j].html)
            /\ (pc = "done" /\ faults = 0) =>
                  (response.status = 200 /\ response.kind = "pdf" /\ Len(mergedPdf) = N))
    /\ [][(pc = "fetch" \/ pc = "arrayBuffer") =>
            (pc' \in {"arrayBuffer", "getBrowserOptions"} /\ response' = response)]_vars

\* the font download failed and the PDF of every page was sent
C14_Witness ==
    /\ base64Font.kind = "null"
    /\ fetchCalls = 1
    /\ pc = "done"
    /\ response.kind = "pdf"
    /\ N >= 1
    /\ Len(mergedPdf) = N

\* C16: the options handed to page.pdf() have exactly one page size active,
\* a named format or a width and height pair.
C16_OnePageSize ==
    \A j \in DOMAIN jobs :
        jobs[j].pc = "pdf" =>
            ((jobs[j].pdfOptions.format # Absent)
                # (jobs[j].pdfOptions.width # 0 /\ jobs[j].pdfOptions.height # 0))

FormatGiven == body.options.format # Absent
WidthGiven == body.options.width # 0
HeightGiven == body.options.height # 0
BadOptions == (FormatGiven /\ (WidthGiven \/ HeightGiven)) \/ (WidthGiven # HeightGiven)

\* C17: the options schema raises an issue exactly for the options that give
\* a format together with a width or a height, or one of width and height
\* without the other; once the body has been parsed, such options are
\* answered with a VALIDATION_ERROR and the other options are not.
C17_OptionsValidation ==
    /\ (PdfOptionsIssues(body.options) # <<>>) <=> BadOptions
    /\ (puppeteer /\ pc = "done" /\ ~InvalidBody /\ body.font = NoFont /\ N <= Ceiling) =>
          (ValidationSent <=> BadOptions)

\* a format given together with a width and a height was rejected
C17_Witness ==
    /\ puppeteer
    /\ ValidationSent
    /\ body.options = [format |-> "Letter", width |-> 800, height |-> 600, timeout |-> 0]
    /\ launchCalls = 0

\* C18 as stated: a descriptor with exactly one of family and url present
\* is answered with a VALIDATION_ERROR before any fetch or launch; one with
\* both or neither is not rejected.
C18_OneOfFamilyUrlRejected ==
    LET one == (body.font.family # Absent) # (body.font.url # Absent) IN
    /\ one => (fetchCalls = 0 /\ launchCalls = 0)
    /\ (pc = "done" /\ one) => ValidationSent
    /\ (pc = "done" /\ ~one /\ body.font.url \in {Absent, FontUrl}
            /\ ~InvalidBody /\ ~BadOptions /\ N <= Ceiling) => ~ValidationSent

\* C18, amended: with the engine loaded, a descriptor with exactly one of
\* family and url given and non-empty is answered with a VALIDATION_ERROR,
\* and one with both or neither (and a well-formed url) is not; in no case
\* does such a descriptor cause a fetch or a launch.
C18_FontValidation ==
    LET one == (body.font.family \notin {Absent, ""}) # (body.font.url \notin {Absent, ""}) IN
    /\ one => (fetchCalls = 0 /\ launchCalls = 0)
    /\ (puppeteer /\ pc = "done" /\ one) => ValidationSent
    /\ (puppeteer /\ pc = "done" /\ ~one /\ body.font.url \in {Absent, FontUrl}
            /\ ~InvalidBody /\ ~BadOptions /\ N <= Ceiling) => ~ValidationSent

\* an empty family with a url was rejected before any fetch or launch
C18_Witness ==
    /\ puppeteer
    /\ ValidationSent
    /\ body.font.family = ""
    /\ body.font.url = FontUrl
    /\ fetchCalls = 0
    /\ launchCalls = 0

Limit == IF isVercel THEN 3 ELSE 5
WindowSize == IF N < Limit THEN N ELSE Limit
WindowsNeeded == (N + Limit - 1) \div Limit

\* C15: the jobs run in ceil(N/L) contiguous windows, the window at offset
\* wL holding the pages wL .. min(N, (w+1)L)-1 in order, and a window is
\* started only when every job of the window before it has returned.
C15_ContiguousWindows ==
    /\ [](jobs # <<>> =>
            /\ i % WindowSize = 0
            /\ Len(jobs) = (IF N - i < WindowSize THEN N - i ELSE WindowSize)
            /\ \A j \in DOMAIN jobs : Printed(jobs[j].html) = pages[i + j]
            /\ Merging => (i \div WindowSize) + 1 = WindowsNeeded)
    /\ [][newPageCalls' # newPageCalls =>
            /\ \A j \in DOMAIN jobs : jobs[j].pc = "returned"
            /\ i' = (IF jobs = <<>> THEN 0 ELSE i + WindowSize)
            /\ newPageCalls' = newPageCalls + Len(jobs')]_vars

\* seven pages under limit 3: the third window holds the one page left
C15_Witness ==
    /\ isVercel
    /\ N = 7
    /\ Merging
    /\ i = 6
    /\ Len(jobs) = 1
    /\ newPageCalls = 7
    /\ Len(pdfBuffers) = 7

\* C19: the handler installed on a page session continues a request exactly
\* when its resource type is document, script, stylesheet, font or image.
C19_AdmissionPolicy ==
    intercepted.decision \notin {"", "pending"} =>
        (intercepted.decision =
            IF intercepted.resourceType \in {"document", "script", "stylesheet", "font", "image"}
            THEN "continue"
            ELSE "abort")

\* the same of the handler of part_001 alone
PolicyOfPart001 ==
    intercepted.source = "src/unnamed/part_001" => C19_AdmissionPolicy

\* request r, with `browser` local b and jobs jj, has launched at most one
\* browser, which b refers to, and has opened sessions on and called close()
\* on no browser but that one
Owns(r, b, jj) ==
    /\ Cardinality({id \in DOMAIN owner : owner[id] = r}) = (IF b.launched THEN 1 ELSE 0)
    /\ b.launched => (b.id \in DOMAIN owner /\ owner[b.id] = r)
    /\ \A j \in DOMAIN jj : jj[j].browser = b.id /\ b.launched
    /\ \A id \in b.closed : id = b.id /\ b.launched

\* C20: of two requests served at once, each launches its own browser,
\* opens page sessions on that browser only and closes that browser only.
C20_OwnBrowser ==
    /\ Owns(rid, browser, jobs)
    /\ parked.rid # 0 => Owns(parked.rid, parked.browser, parked.jobs)

\* one request has called close() on its browser while the other, on a
\* browser of its own, has a page session open and a render under way
C20_Witness ==
    /\ parked.rid # 0
    /\ browser.launched
    /\ browser.closeCalls > 0
    /\ parked.browser.launched
    /\ parked.browser.id # browser.id
    /\ parked.browser.closeCalls = 0
    /\ \E j \in DOMAIN parked.jobs : parked.jobs[j].opened /\ parked.jobs[j].pc = "setContent"

\* the fragments of the texts the engine and the libraries reject with
RawFragments ==
    UNION {{e.message[k] : k \in DOMAIN e.message} :
                e \in RawErrors \cup {EInvalidPdf, EInvalidChar}}

Leaks(message) == \E k \in DOMAIN message : message[k] \in RawFragments

\* the message of an envelope of each kind but VALIDATION_ERROR
FixedMessages ==
    [TIMEOUT_ERROR |-> {<<"Rendering timed out. Try reducing content complexity or external resources.">>},
     RESOURCE_ERROR |-> {<<"Failed to load external resources (fonts/images).">>},
     RENDER_ERROR |-> {<<"Failed to render page to PDF.">>},
     UNKNOWN_ERROR |-> {<<"Failed to generate PDF.">>,
                        <<"Puppeteer is not available in this environment.">>}]

OpenSessions == {j \in DOMAIN jobs : jobs[j].opened /\ jobs[j].closeCalls = 0}

C23_FirstFailureWins ==
    /\ [][(all.state = "pending" /\ all'.state = "rejected") =>
            /\ \A k \in DOMAIN jobs : jobs[k].pc # "thrown"
            /\ \E j \in DOMAIN jobs : jobs'[j].pc = "thrown" /\ all'.reason = jobs'[j].out]_vars
    /\ [][all.state = "rejected" => all' = all]_vars
    /\ []((pc \in {"catchClose", "done"} /\ all.state = "rejected") => error = all.reason)

\* two jobs of a window threw different errors; the request was answered
\* with that of the second job, not with that of the job of lowest index
C23_Witness ==
    /\ pc = "done"
    /\ Len(jobs) >= 2
    /\ jobs[1].pc = "thrown"
    /\ jobs[2].pc = "thrown"
    /\ jobs[1].out # jobs[2].out
    /\ all.reason = jobs[2].out
    /\ jobs[2].out.tag = "envelope"
    /\ response.body = jobs[2].out

\* C24: the timeout handed to page.setContent() is the request's
\* options.timeout when it gives one, which the schema keeps within
\* [1000, 60000], and 60000 ms otherwise; it never exceeds 60000, and no
\* session is opened for a timeout outside the schema's bounds.
C24_EffectiveTimeout ==
    LET t == body.options.timeout IN
    /\ ((t # 0 /\ t < 1000) \/ t > 60000) => newPageCalls = 0
    /\ \A j \in DOMAIN jobs :
          /\ jobs[j].pc \in {"setContent", "settle", "pdf"} => jobs[j].renderTimeout # 0
          /\ jobs[j].renderTimeout # 0 =>
                /\ jobs[j].renderTimeout = (IF t = 0 THEN 60000 ELSE IF t < 60000 THEN t ELSE 60000)
                /\ jobs[j].renderTimeout <= 60000
                /\ (1000 <= t /\ t <= 60000) => jobs[j].renderTimeout = t

\* a request asked for 30 s and its page is loaded with that timeout
C24_Witness ==
    /\ body.options.timeout = 30000
    /\ \E j \in DOMAIN jobs : jobs[j].pc = "setContent" /\ jobs[j].renderTimeout = 30000

\* C25: a pause is taken exactly when a window has completed and another
\* follows: the pauses taken equal the windows completed before the current
\* one, a batch of W windows that reached the merge took W-1, and every
\* pause is followed by the start of the next window.
C25_PausesBetweenWindows ==
    /\ []((N > 0 /\ jobs # <<>>) =>
            pauses = (i \div WindowSize) + (IF pc = "pause" THEN 1 ELSE 0))
    /\ [](jobs = <<>> => pauses = 0)
    /\ []((N > 0 /\ Merging) => pauses = WindowsNeeded - 1)
    /\ [][pauses' # pauses =>
            /\ pc = "awaitAll" /\ all.state = "fulfilled"
            /\ \A j \in DOMAIN jobs : jobs[j].pc = "returned"
            /\ i + WindowSize < N
            /\ pc' = "pause" /\ pauses' = pauses + 1 /\ newPageCalls' = newPageCalls]_vars
    /\ [][pc = "pause" =>
            (pc' = "awaitAll" /\ i' = i + WindowSize /\ newPageCalls' > newPageCalls
             /\ pauses' = pauses)]_vars
    /\ [][(newPageCalls' # newPageCalls /\ i' > 0) => pc = "pause"]_vars

\* seven pages under limit 3: three windows and two pauses
C25_Witness ==
    /\ isVercel
    /\ N = 7
    /\ Merging
    /\ i = 6
    /\ pauses = 2

\* the first tag of the document that is an element of that name (its text
\* ends, or an attribute follows, right after the name); 0 when there is none
ElementAt(html, name) ==
    LET hits == {k \in DOMAIN html :
                    /\ Len(html[k].t) >= 3
                    /\ html[k].t[1] = "<"
                    /\ html[k].t[2] \in {name}
                    /\ html[k].t[3] \in {">", " "}}
    IN IF hits = {} THEN 0 ELSE CHOOSE k \in hits : \A h \in hits : k <= h

\* the document the claim says results from injecting the style
Injected(html, css) ==
    IF ElementAt(html, "head") # 0
    THEN SubSeq(html, 1, ElementAt(html, "head")) \o <<Style(css)>>
            \o SubSeq(html, ElementAt(html, "head") + 1, Len(html))
    ELSE IF ElementAt(html, "html") # 0
    THEN SubSeq(html, 1, ElementAt(html, "html")) \o <<HeadTag, Style(css), HeadEnd>>
            \o SubSeq(html, ElementAt(html, "html") + 1, Len(html))
    ELSE <<Style(css)>> \o html

\* C26: the style is inserted right after the head tag of a document that
\* has a head element, else in a synthetic head right after its html tag,
\* else before all content; a document without head element is not treated
\* as having one.
C26_InjectFallback ==
    \A j \in DOMAIN jobs :
        fontCSS # NoCss => jobs[j].html = Injected(Html(pages[i + j]), fontCSS)

\* the same of the documents in which no other tag begins with "<head"
InjectFallbackWithoutHeader ==
    \A j \in DOMAIN jobs :
        (fontCSS # NoCss /\ \A k \in DOMAIN Html(pages[i + j]) : Html(pages[i + j])[k] # HeaderTag)
            => jobs[j].html = Injected(Html(pages[i + j]), fontCSS)

\* C27: a request without font descriptor, or whose descriptor lacks family
\* or url, makes no fetch and gets no style fragment.
C27_NoFontNoFetch ==
    (~Truthy(body.font.family) \/ ~Truthy(body.font.url)) =>
        /\ fetchCalls = 0
        /\ pc \notin {"fetch", "arrayBuffer"}
        /\ base64Font = Unset
        /\ fontCSS = NoCss
        /\ \A j \in DOMAIN jobs : ~HasStyle(jobs[j].html) /\ jobs[j].html = Html(pages[i + j])

\* a descriptor with an empty family and no url: the PDF was sent, nothing fetched
C27_Witness ==
    /\ body.font.family = ""
    /\ body.font.url = Absent
    /\ pc = "done"
    /\ response.kind = "pdf"
    /\ fetchCalls = 0

\* C28: the font download yields null for every payload above the ceiling
\* the code documents, 1 MB, and the encoded text for every payload at or
\* below it.
C28_DocumentedCeiling ==
    /\ base64Font.kind = "string" => base64Font.length <= Base64(DocumentedFontSizeLimit)
    /\ base64Font.kind = "null" => fontCSS = NoCss

\* the same of the ceiling the test enforces, 2 MB
EnforcedCeiling ==
    /\ base64Font.kind = "string" => base64Font.length <= Base64(FontSizeLimit)
    /\ base64Font.kind = "null" => fontCSS = NoCss

\* C30: browser.close() is called at most once for a request, also when a
\* failure follows the close of the success path.
C30_CloseAtMostOnce == browser.closeCalls <= 1

\* C29: the batching loop run on an empty list of pages collects no page
\* buffer, opens no page session, takes no pause, and ends: the handler
\* goes on to the merge.
C29_EmptyBatch ==
    /\ [](N = 0 =>
            /\ pdfBuffers = <<>>
            /\ jobs = <<>>
            /\ newPageCalls = 0
            /\ pauses = 0
            /\ pc \in {"launch", "create"})
    /\ (N = 0 ~> pc = "create")

\* the loop was passed with no page: nothing opened, the merge is next
C29_Witness ==
    /\ N = 0
    /\ browser.launched
    /\ pc = "create"
    /\ pdfBuffers = <<>>
    /\ newPageCalls = 0
    /\ pauses = 0


\* every page rendered, every buffer was copied into the merged document and
\* the document was serialised (browser.close() is called right after save())
Assembled == N > 0 /\ Len(mergedPdf) = N /\ mi = N /\ browser.closeCalls >= 1

\* C31: a request whose pages all rendered and whose document was merged
\* and serialised is answered with status 200 and the merged PDF bytes, also
\* when releasing the browser failed after the document was assembled (a
\* failure of writing the response itself is left aside).
C31_AssembledAnswered200 ==
    (pc = "done" /\ Assembled /\ error # EInvalidChar)
        => response = Response(200, "pdf", mergedPdf)

\* C32: at the moment browser.close() is called for a request, no render job
\* of the request is in progress: every job of the current window has
\* returned or thrown and has closed the page session it opened, also when
\* the window failed fast on one job while its siblings were rendering.
C32_NoJobInProgressAtClose ==
    [][browser'.closeCalls > browser.closeCalls
        => \A j \in DOMAIN jobs :
              /\ ~Running(jobs[j])
              /\ jobs[j].opened => jobs[j].closeCalls = 1]_vars

\* C33: once a render job of a request has failed, browser.newPage() is not
\* called again for the request and no job is added: the loop does not
\* advance to a later window, every session the request ever asked for is
\* that of a delivered page or of a job of the failing window, and so only
\* jobs of the failing window can still hold an open session.
C33_NoSessionAfterFailure ==
    /\ [][JobFailed =>
            /\ newPageCalls' = newPageCalls
            /\ i' = i
            /\ pdfBuffers' = pdfBuffers
            /\ DOMAIN jobs' = DOMAIN jobs
            /\ pc' # "pause"]_vars
    /\ [](JobFailed =>
            /\ Len(pdfBuffers) = i
            /\ newPageCalls = i + Len(jobs)
            /\ Len(jobs) <= maxConcurrency
            /\ Cardinality(OpenSessions) <= Len(jobs) - 1)

\* the error was answered with a window still to come, and a job of the
\* failing window, started before the failure, still holds its session
C33_Witness ==
    /\ ErrorSent
    /\ JobFailed
    /\ i + maxConcurrency < N
    /\ newPageCalls = i + Len(jobs)
    /\ OpenSessions # {}

\* the style fragments a document carries
Styles(html) == {html[k].css : k \in DOMAIN html} \ {NoCss}

\* C34: the font is fetched at most once per request, and fetched and turned
\* into a style fragment only before the browser is launched and before any
\* page session is asked for; from then on the fragment is fixed, and every
\* job's document carries exactly that fragment when there is one and no
\* fragment when there is none: all N pages are treated alike.
C34_FontOnceAndUniform ==
    /\ [](/\ fetchCalls <= 1
          /\ (pc = "fetch" \/ pc = "arrayBuffer") =>
                (launchCalls = 0 /\ newPageCalls = 0 /\ ~browser.launched /\ jobs = <<>>)
          /\ \A j \in DOMAIN jobs :
                Styles(jobs[j].html) = (IF fontCSS # NoCss THEN {fontCSS} ELSE {}))
    /\ [][(fetchCalls' # fetchCalls \/ fontCSS' # fontCSS \/ base64Font' # base64Font) =>
            (launchCalls' = 0 /\ newPageCalls' = 0 /\ ~browser'.launched)]_vars

\* four pages with a font under limit 3: the second window renders the
\* fourth page with the fragment the first three pages were given
C34_Witness ==
    /\ isVercel
    /\ N = 4
    /\ fetchCalls = 1
    /\ fontCSS # NoCss
    /\ i = 3
    /\ Len(pdfBuffers) = 3
    /\ Len(jobs) = 1
    /\ Styles(jobs[1].html) = {fontCSS}
====
